---- MODULE Spec2Model ----
(***************************************************************************)
(* Model of the playlist synchronisation engine of update_playlist:        *)
(* FileManager (media scan, key normalisation, index file, reference       *)
(* record), SpotDLWrapper (search / download), PlaylistSyncer              *)
(* (sync_playlist) and PlaylistManager (sync_all_playlists).               *)
(*                                                                         *)
(* File names, artist names and titles are strings; the operators below    *)
(* work on them character by character, as str.lower, re.sub, str.strip    *)
(* and pathlib do.                                                         *)
(***************************************************************************)
EXTENDS Integers, Sequences, FiniteSets, TLC

VARIABLES
    config,     \* AppConfig.playlists: the configured PlaylistConfig entries
    fs,         \* the playlist folders on disk, by playlist name
    world,      \* by playlist name: what the service and the disk answer
    last,       \* the most recent sync_playlist call: its inputs and what it did
    run,        \* PlaylistManager.sync_all_playlists: loop position, counters, log
    rec,        \* a reference record file on its own: what was written, what was read
    norm,       \* key normalisation on its own: a song, a file, their keys
    proc,       \* main(): the program from its start to its exit status
    script      \* update() of the standalone script: its folders, position, log

\* The variables of the sync engine and the orchestrator.
core == <<config, fs, world, last, run>>

\* The variables of the parts that are looked at on their own.
aux == <<rec, norm, proc, script>>

\* All but one of them.
butRec == <<core, norm, proc, script>>
butNorm == <<core, rec, proc, script>>
butProc == <<core, rec, norm, script>>
butScript == <<core, rec, norm, proc>>

vars == <<core, aux>>

None == "None"          \* Python's None
NoFile == "NoFile"      \* a path at which no file exists

\* ------------------------------------------------------------------ strings

Chars(s) == [i \in 1..Len(s) |-> SubSeq(s, i, i)]

RECURSIVE Join(_)
Join(cs) == IF cs = <<>> THEN "" ELSE Head(cs) \o Join(Tail(cs))

\* The characters of the model's names, in code point order.
Upper == Chars("ABCDEFGHIJKLMNOPQRSTUVWXYZ")
LowerLetters == Chars("abcdefghijklmnopqrstuvwxyz")
Digits == Chars("0123456789")
CodePoints ==
    Chars(" !#,-./") \o Digits \o Upper \o Chars("\\_") \o LowerLetters

Ord(c) == CHOOSE i \in 1..Len(CodePoints) : CodePoints[i] = c

InSeq(c, cs) == \E i \in 1..Len(cs) : cs[i] = c

\* str.lower(), one character
LowerChar(c) ==
    IF InSeq(c, Upper)
    THEN LowerLetters[CHOOSE i \in 1..Len(Upper) : Upper[i] = c]
    ELSE c

\* str.lower()
StrLower(s) == Join([i \in 1..Len(s) |-> LowerChar(SubSeq(s, i, i))])

\* regex classes \w, \s and the literal hyphen
IsWordChar(c) == InSeq(c, Upper) \/ InSeq(c, LowerLetters) \/ InSeq(c, Digits) \/ c = "_"
IsSpace(c) == c = " " \/ c = "\n"
IsKept(c) == IsWordChar(c) \/ IsSpace(c) \/ c = "-"
IsSeparator(c) == c = "-" \/ IsSpace(c)

\* re.sub(r'[^\w\s-]', '', name)
RECURSIVE KeepKept(_)
KeepKept(cs) ==
    IF cs = <<>> THEN <<>>
    ELSE (IF IsKept(Head(cs)) THEN <<Head(cs)>> ELSE <<>>) \o KeepKept(Tail(cs))

RemoveSpecial(s) == Join(KeepKept(Chars(s)))

\* str.strip(): whitespace off both ends
RECURSIVE LStrip(_)
LStrip(cs) == IF cs # <<>> /\ IsSpace(Head(cs)) THEN LStrip(Tail(cs)) ELSE cs

RECURSIVE RStrip(_)
RStrip(cs) ==
    IF cs # <<>> /\ IsSpace(cs[Len(cs)]) THEN RStrip(SubSeq(cs, 1, Len(cs) - 1)) ELSE cs

StrStrip(s) == Join(RStrip(LStrip(Chars(s))))

\* re.sub(r'[-\s]+', '-', name): every maximal run of separators becomes one hyphen
RECURSIVE SkipSeparators(_)
SkipSeparators(cs) ==
    IF cs # <<>> /\ IsSeparator(Head(cs)) THEN SkipSeparators(Tail(cs)) ELSE cs

RECURSIVE CollapseRuns(_)
CollapseRuns(cs) ==
    IF cs = <<>> THEN <<>>
    ELSE IF IsSeparator(Head(cs))
         THEN <<"-">> \o CollapseRuns(SkipSeparators(Tail(cs)))
         ELSE <<Head(cs)>> \o CollapseRuns(Tail(cs))

SubSeparators(s) == Join(CollapseRuns(Chars(s)))

\* -------------------------------------------------------------------- paths
\* A file of a playlist folder is named by its path relative to the folder,
\* components separated by "/".

RECURSIVE SplitParts(_, _)
SplitParts(cs, cur) ==
    IF cs = <<>> THEN <<cur>>
    ELSE IF Head(cs) = "/" THEN <<cur>> \o SplitParts(Tail(cs), "")
         ELSE SplitParts(Tail(cs), cur \o Head(cs))

\* PurePath.parts
Parts(p) == SplitParts(Chars(p), "")

\* PurePath.name
PathName(p) == Parts(p)[Len(Parts(p))]

\* str.rfind('.'), counted from 1; 0 when there is no dot
LastDot(n) ==
    LET dots == {i \in 1..Len(n) : SubSeq(n, i, i) = "."}
    IN IF dots = {} THEN 0 ELSE CHOOSE i \in dots : \A j \in dots : j <= i

\* PurePath.suffix: from the last dot of the name, unless that dot is the
\* first or the last character of the name
PathSuffix(p) ==
    LET n == PathName(p)
        i == LastDot(n)
    IN IF 1 < i /\ i < Len(n) THEN SubSeq(n, i, Len(n)) ELSE ""

\* PurePath.stem
PathStem(p) ==
    LET n == PathName(p)
        i == LastDot(n)
    IN IF 1 < i /\ i < Len(n) THEN SubSeq(n, 1, i - 1) ELSE n

\* str.__lt__: lexicographic by code point
RECURSIVE CharsLess(_, _)
CharsLess(a, b) ==
    IF b = <<>> THEN FALSE
    ELSE IF a = <<>> THEN TRUE
    ELSE IF Head(a) = Head(b) THEN CharsLess(Tail(a), Tail(b))
    ELSE Ord(Head(a)) < Ord(Head(b))

StrLess(a, b) == CharsLess(Chars(a), Chars(b))

\* PurePath.__lt__: the lists of components, compared lexicographically
RECURSIVE PartsLess(_, _)
PartsLess(a, b) ==
    IF b = <<>> THEN FALSE
    ELSE IF a = <<>> THEN TRUE
    ELSE IF Head(a) = Head(b) THEN PartsLess(Tail(a), Tail(b))
    ELSE StrLess(Head(a), Head(b))

PathLess(p, q) == PartsLess(Parts(p), Parts(q))

\* ------------------------------------------------------------- the universe

\* Source references: the one configured for a playlist, and the one a
\* folder's reference record holds.
U1 == "http://s/1"
U2 == "https://s/2"

\* A Song of the acquisition service: the fields the program reads (artist,
\* name) and the artists the service names the downloaded file after.
Song(artist, artists, name) == [artist |-> artist, artists |-> artists, name |-> name]

\* The songs of the service. T2's title holds a character normalisation
\* removes; T3 has two artists, and the service names its file after both.
T1 == Song("Ab", "Ab", "Cd")
T2 == Song("E", "E", "F!")
T3 == Song("G", "G, X", "H")
Tracks == {T1, T2, T3}

\* The file the service writes for a song into the download directory.
DownloadedFile(song) == song.artists \o " - " \o song.name \o ".mp3"

\* The names of the configured playlists.
PlaylistNames == {"rock", "jazz", "pop"}

\* The name of the index file and of the reference record of a playlist.
IndexName(name) == name \o ".m3u"
RecordName(name) == name \o ".spotdl"

\* Files found in a folder before the first sync: an upper-case extension, a
\* file that is no media file, a file in a subdirectory.
InitFileSets == {{}, {"ab-cd.MP3", "g-h.txt"}, {"sub/e f.flac", "ab-cd.MP3"}}

\* Every file name a folder of the model can hold. What the string
\* operators give for these names is computed once and looked up afterwards.
KnownPaths ==
    UNION InitFileSets \cup {DownloadedFile(t) : t \in Tracks} \cup {"old.spotdl"}
    \cup {IndexName(n) : n \in PlaylistNames} \cup {RecordName(n) : n \in PlaylistNames}

\* The position of a path among the known paths, in PurePath order.
PathRank == [p \in KnownPaths |-> Cardinality({q \in KnownPaths : PathLess(q, p)})]

\* sorted(paths)
RECURSIVE SortedPaths(_)
SortedPaths(S) ==
    IF S = {} THEN <<>>
    ELSE LET m == CHOOSE p \in S : \A q \in S : PathRank[p] <= PathRank[q]
         IN <<m>> \o SortedPaths(S \ {m})

\* ------------------------------------------------------------- FileManager

MEDIA_EXTENSIONS ==
    {".mp3", ".mp4", ".mkv", ".avi", ".flac", ".wav", ".aac", ".ogg", ".opus"}

\* Whether get_media_files keeps a path: its suffix, lowercased, is a media
\* extension (line 23).
HasMediaSuffix(p) == StrLower(PathSuffix(p)) \in MEDIA_EXTENSIONS

IsMedia == [p \in KnownPaths |-> HasMediaSuffix(p)]

\* Every regular file below the folder: what folder_path.rglob('*') yields
\* and is_file() accepts.  A folder that does not exist yields nothing.
FolderFiles(name, folder) ==
    IF folder.kind # "dir" THEN {}
    ELSE folder.files \cup DOMAIN folder.spotdl
         \cup (IF folder.m3u = NoFile THEN {} ELSE {IndexName(name)})

\* FileManager.get_media_files
GetMediaFiles(name, folder) ==
    SortedPaths({p \in FolderFiles(name, folder) : IsMedia[p]})

\* The text create_m3u_playlist writes: the marker, then every media file's
\* relative path, each followed by the two characters the code's string
\* literal '\\n' denotes.
RECURSIVE M3uBody(_)
M3uBody(paths) ==
    IF paths = <<>> THEN "" ELSE Head(paths) \o "\\n" \o M3uBody(Tail(paths))

M3uText(paths) == "#EXTM3U" \o "\\n" \o M3uBody(paths)

\* A faulty create_m3u_playlist, for comparison: its except clause logs the
\* error and returns instead of raising it again.
CreateM3uPlaylistQuiet(name, folder, ioFail) ==
    IF folder.kind # "dir" \/ ioFail
    THEN [raised |-> FALSE, folder |-> folder]
    ELSE [raised |-> FALSE,
          folder |-> [folder EXCEPT !.m3u = M3uText(GetMediaFiles(name, folder))]]

\* FileManager.create_m3u_playlist: [raised, folder]. open('w') raises when
\* the folder is no directory or the write is refused (ioFail).
CreateM3uPlaylist(name, folder, ioFail) ==
    LET media == GetMediaFiles(name, folder)
    IN IF folder.kind # "dir" \/ ioFail
       THEN [raised |-> TRUE, folder |-> folder]
       ELSE [raised |-> FALSE, folder |-> [folder EXCEPT !.m3u = M3uText(media)]]

\* A faulty key of a file, for comparison: strip() is left out of line 97.
NormalizeStemNoStrip(p) == SubSeparators(RemoveSpecial(StrLower(PathStem(p))))

\* FileManager.get_existing_songs: the key of one file (lines 96-98)
NormalizeStem(p) == SubSeparators(StrStrip(RemoveSpecial(StrLower(PathStem(p)))))

StemKeys == [p \in KnownPaths |-> NormalizeStem(p)]

ExistingKey(p) == StemKeys[p]

\* A faulty get_existing_songs, for comparison: the stems are lowercased but
\* lines 97-98 are left out.
GetExistingStems(name, folder) ==
    LET media == GetMediaFiles(name, folder)
    IN {StrLower(PathStem(media[i])) : i \in 1..Len(media)}

GetExistingSongs(name, folder) ==
    LET media == GetMediaFiles(name, folder)
    IN {ExistingKey(media[i]) : i \in 1..Len(media)}

\* FileManager.normalize_song_name
NormalizeName(song) ==
    SubSeparators(StrStrip(RemoveSpecial(StrLower(song.artist \o " - " \o song.name))))

SongKeys == [song \in Tracks |-> NormalizeName(song)]

NormalizeSongName(song) == SongKeys[song]

\* ------------------------------------------------------- reference record
\* The content of a .spotdl file: plain text, or the JSON object
\* save_spotdl_file dumps (its 'query' and 'url' members; None when absent).

TextRecord(text) == [form |-> "text", text |-> text]
JsonRecord(query, url) == [form |-> "json", query |-> query, url |-> url]

\* str.startswith('http')
StartsWithHttp(s) == Len(s) >= 4 /\ SubSeq(s, 1, 4) = "http"

\* Python truthiness of an optional string
Truthy(x) == x # None /\ x # ""

\* FileManager.load_spotdl_file: text that starts with 'http' is the URL;
\* a JSON object gives data.get('query') or data.get('url'); any other text
\* fails json.loads and gives None.
LoadSpotdlFile(content) ==
    IF content.form = "text"
    THEN (IF StartsWithHttp(StrStrip(content.text)) THEN StrStrip(content.text) ELSE None)
    ELSE (IF Truthy(content.query) THEN content.query ELSE content.url)

\* FileManager.save_spotdl_file: [raised, folder]. The open or the dump may
\* fail (ioFail); the error is logged and raised again.
SaveSpotdlFile(spotify_url, target, folder, ioFail) ==
    IF ioFail
    THEN [raised |-> TRUE, folder |-> folder]
    ELSE [raised |-> FALSE,
          folder |-> [folder EXCEPT
                        !.spotdl = (target :> JsonRecord(spotify_url, None)) @@ @]]

\* ------------------------------------------------------------ SpotDLWrapper
\* What client.search does: it returns a list of songs, or raises.
SearchAnswer(raise, songs) == [raise |-> raise, songs |-> songs]

\* SpotDLWrapper.search_playlist: an exception of client.search is logged and
\* becomes the empty list.
SearchPlaylist(spotify_url, answer) == IF answer.raise THEN <<>> ELSE answer.songs

\* SpotDLWrapper.download_songs: [results, folder]. landed is the set of
\* songs the service manages to write to the folder during this call;
\* client.download_songs reports that per song, unless it raises (raised),
\* which becomes [False] * len(songs).
DownloadSongs(songs, folder, landed, raised) ==
    IF songs = <<>> THEN [results |-> <<>>, folder |-> folder]
    ELSE [results |-> [i \in 1..Len(songs) |-> ~raised /\ songs[i] \in landed],
          folder |-> [folder EXCEPT
                        !.files = @ \cup {DownloadedFile(songs[i]) :
                                            i \in {j \in 1..Len(songs) : songs[j] \in landed}}]]

\* ----------------------------------------------------------- PlaylistSyncer

PlaylistConfig(name, spotify_url) ==
    [name |-> name, spotify_url |-> spotify_url, spotdl_file |-> None]

\* Path.mkdir(parents=True, exist_ok=True) on a folder that can be created
Mkdir(folder) == IF folder.kind = "absent" THEN [folder EXCEPT !.kind = "dir"] ELSE folder

\* A faulty _get_spotify_url, for comparison: a record file in the folder is
\* asked before the configured URL.
GetSpotifyUrlRecordFirst(playlist_config, folder, first) ==
    IF DOMAIN folder.spotdl # {} /\ Truthy(LoadSpotdlFile(folder.spotdl[first]))
    THEN LoadSpotdlFile(folder.spotdl[first])
    ELSE IF Truthy(playlist_config.spotify_url) THEN playlist_config.spotify_url
    ELSE None

\* PlaylistSyncer._get_spotify_url. glob('*.spotdl') lists the folder's record
\* files in directory order; first is the one it happens to list first.
GetSpotifyUrl(playlist_config, folder, first) ==
    IF Truthy(playlist_config.spotify_url) THEN playlist_config.spotify_url
    ELSE IF playlist_config.spotdl_file # None
            /\ playlist_config.spotdl_file \in DOMAIN folder.spotdl
         THEN LoadSpotdlFile(folder.spotdl[playlist_config.spotdl_file])
    ELSE IF DOMAIN folder.spotdl # {} THEN LoadSpotdlFile(folder.spotdl[first])
    ELSE None

\* A faulty _filter_new_songs, for comparison: the test of line 90 always
\* passes.
FilterNewSongsKeepAll(songs, name, folder) == songs

\* PlaylistSyncer._filter_new_songs
FilterNewSongs(songs, name, folder) ==
    LET existing_songs == GetExistingSongs(name, folder)
    IN SelectSeq(songs, LAMBDA song : NormalizeSongName(song) \notin existing_songs)

\* A faulty _update_spotdl_file, for comparison: it saves the entry's
\* configured URL instead of the URL it is handed.
UpdateSpotdlFileConfigured(playlist_config, spotify_url, folder, ioFail) ==
    SaveSpotdlFile(playlist_config.spotify_url, RecordName(playlist_config.name), folder,
                   ioFail)

\* PlaylistSyncer._update_spotdl_file
UpdateSpotdlFile(playlist_config, spotify_url, folder, ioFail) ==
    SaveSpotdlFile(spotify_url, RecordName(playlist_config.name), folder, ioFail)

\* any(results)
AnyTrue(results) == \E i \in 1..Len(results) : results[i]

\* body applied to the value of e: a local variable assigned once, then read.
With(e, body(_)) == CHOOSE r \in {body(x) : x \in {e}} : TRUE

\* A faulty choice of the list to download, for comparison: force_resync is
\* ignored.
SongsToDownloadFiltered(songs, name, folder, force_resync) ==
    FilterNewSongs(songs, name, folder)

\* The list sync_playlist hands to download_songs (lines 42-46).
SongsToDownload(songs, name, folder, force_resync) ==
    IF ~force_resync THEN FilterNewSongs(songs, name, folder) ELSE songs

\* What one sync_playlist call did. stage: how far the try block got; error:
\* an exception was raised inside it; escaped: an exception leaves the code
\* modelled; ret: the value returned (FALSE while nothing is returned);
\* success: the local variable of that name (FALSE while unset); scanned:
\* whether get_existing_songs was called; called: whether download_songs was
\* called, todo: the list handed to it, results: what it returned; saved:
\* whether the record write took place.
Outcome(stage, error, folder, url, songs, scanned, called, todo, results, success, saved) ==
    [stage |-> stage, error |-> error, escaped |-> error,
     ret |-> IF stage = "returned" THEN success ELSE FALSE,
     folder |-> folder, url |-> url, songs |-> songs, scanned |-> scanned,
     called |-> called, todo |-> todo, results |-> results, success |-> success,
     saved |-> saved]

\* The try block of sync_playlist (lines 25-59). env holds what the world
\* answers during the call: first (the record file glob lists first), answer
\* (of client.search), landed and raised (of client.download_songs), saveFail
\* (of the record write).
SyncBody(playlist_config, folder, force_resync, env) ==
    IF folder.kind = "blocked"
    THEN Outcome("mkdir", TRUE, folder, None, <<>>, FALSE, FALSE, <<>>, <<>>, FALSE, FALSE)
    ELSE
    With(Mkdir(folder), LAMBDA made :
    With(GetSpotifyUrl(playlist_config, made, env.first), LAMBDA spotify_url :
    IF ~Truthy(spotify_url)
    THEN Outcome("no url", FALSE, made, None, <<>>, FALSE, FALSE, <<>>, <<>>, FALSE, FALSE)
    ELSE
    With(SearchPlaylist(spotify_url, env.answer), LAMBDA songs :
    IF songs = <<>>
    THEN Outcome("no songs", FALSE, made, spotify_url, songs, FALSE, FALSE, <<>>, <<>>,
                 FALSE, FALSE)
    ELSE
    With(SongsToDownload(songs, playlist_config.name, made, force_resync),
         LAMBDA songs_to_download :
    With(IF songs_to_download # <<>>
         THEN DownloadSongs(songs_to_download, made, env.landed, env.raised)
         ELSE [results |-> <<>>, folder |-> made], LAMBDA down :
    With(IF songs_to_download # <<>> THEN AnyTrue(down.results) ELSE TRUE,
         LAMBDA success :
    With(UpdateSpotdlFile(playlist_config, spotify_url, down.folder, env.saveFail),
         LAMBDA save :
    Outcome(IF save.raised THEN "save" ELSE "returned", save.raised, save.folder,
            spotify_url, songs, ~force_resync, songs_to_download # <<>>,
            songs_to_download, down.results, success, ~save.raised))))))))

\* A faulty sync_playlist, for comparison: without the except clause.
SyncPlaylistUncaught(playlist_config, folder, force_resync, env) ==
    SyncBody(playlist_config, folder, force_resync, env)

\* PlaylistSyncer.sync_playlist: the try block, and the except clause (lines
\* 61-63) that logs any exception and returns False.
SyncPlaylist(playlist_config, folder, force_resync, env) ==
    With(SyncBody(playlist_config, folder, force_resync, env), LAMBDA body :
         IF body.error THEN [body EXCEPT !.escaped = FALSE, !.ret = FALSE] ELSE body)

\* ---------------------------------------------------------- PlaylistManager

\* A faulty loop body: a playlist is counted only when its sync succeeded too.
ProcessEntrySynced(playlist_config, folder, skip_sync, force_resync, env) ==
    LET calls == IF skip_sync THEN <<>> ELSE <<"sync_playlist">> IN
    With(SyncPlaylist(playlist_config, folder, force_resync, env), LAMBDA sync :
    With(IF skip_sync THEN folder ELSE sync.folder, LAMBDA synced :
    IF ~skip_sync /\ sync.escaped
    THEN [folder |-> synced,
          entry |-> [name |-> playlist_config.name, calls |-> calls,
                     sync_success |-> FALSE, index_raised |-> FALSE,
                     counted |-> FALSE]]
    ELSE With(CreateM3uPlaylist(playlist_config.name, synced, env.indexFail),
              LAMBDA m3u :
         [folder |-> m3u.folder,
          entry |-> [name |-> playlist_config.name,
                     calls |-> calls \o <<"create_m3u_playlist">>,
                     sync_success |-> ~skip_sync /\ sync.ret,
                     index_raised |-> m3u.raised,
                     counted |-> ~m3u.raised /\ (skip_sync \/ sync.ret)]])))

\* One iteration of the loop of sync_all_playlists (lines 176-190), for one
\* entry: [folder, entry]. entry is the iteration's log: the calls made, in
\* order, what sync_playlist returned (FALSE when it was not called or did
\* not return), whether create_m3u_playlist raised, and whether success_count
\* was incremented.
ProcessEntry(playlist_config, folder, skip_sync, force_resync, env) ==
    LET calls == IF skip_sync THEN <<>> ELSE <<"sync_playlist">> IN
    With(SyncPlaylist(playlist_config, folder, force_resync, env), LAMBDA sync :
    With(IF skip_sync THEN folder ELSE sync.folder, LAMBDA synced :
    IF ~skip_sync /\ sync.escaped
    THEN [folder |-> synced,
          entry |-> [name |-> playlist_config.name, calls |-> calls,
                     sync_success |-> FALSE, index_raised |-> FALSE,
                     counted |-> FALSE]]
    ELSE With(CreateM3uPlaylist(playlist_config.name, synced, env.indexFail),
              LAMBDA m3u :
         [folder |-> m3u.folder,
          entry |-> [name |-> playlist_config.name,
                     calls |-> calls \o <<"create_m3u_playlist">>,
                     sync_success |-> ~skip_sync /\ sync.ret,
                     index_raised |-> m3u.raised,
                     counted |-> ~m3u.raised]])))

\* ------------------------------------------------------------------ inputs

\* Longest remote track list the service returns.
MaxSongs == 2

\* The track lists client.search can return.
RemoteLists == UNION {[1..n -> Tracks] : n \in 0..MaxSongs}

\* What client.search can do.
SearchAnswers ==
    {SearchAnswer(FALSE, songs) : songs \in RemoteLists} \cup {SearchAnswer(TRUE, <<>>)}

Folder(kind, files, spotdl, m3u) ==
    [kind |-> kind, files |-> files, spotdl |-> spotdl, m3u |-> m3u]

\* A playlist folder before the first sync: not there yet, impossible to
\* create (mkdir is refused), or a directory: an empty one, one with the
\* playlist's own reference record (as save_spotdl_file writes it), one with
\* a plain-URL reference file under another name, one with a reference file
\* that holds no reference.
InitFolders(name) ==
    {Folder("absent", {}, <<>>, NoFile),
     Folder("blocked", {}, <<>>, NoFile),
     Folder("dir", {}, <<>>, NoFile),
     Folder("dir", {"ab-cd.MP3", "g-h.txt"},
            RecordName(name) :> JsonRecord(U2, None), NoFile),
     Folder("dir", {"sub/e f.flac", "ab-cd.MP3"},
            "old.spotdl" :> TextRecord(U2 \o "\n"), NoFile),
     Folder("dir", {}, "old.spotdl" :> TextRecord("junk"), NoFile)}

NoRun == [stage |-> "none", name |-> None, force |-> FALSE, songs |-> <<>>]

\* No reference record file is being looked at.
NoRecord == [url |-> None, how |-> "none", file |-> NoFile, read |-> FALSE,
             loaded |-> None]

\* No song is being looked at.
NoNorm == [artist |-> None, title |-> None, remote |-> None, file |-> NoFile,
           local |-> None]

\* args.add_playlist: nothing, or the reference and the name to add
NoAdd == [url |-> None, name |-> None]

\* The configuration file has not been read again.
NoReload == [done |-> FALSE, error |-> FALSE, playlists |-> <<>>]

\* main() has not been started.
NoProc ==
    [pc |-> "none", file |-> NoFile, add |-> NoAdd, exit_code |-> -1,
     loaded |-> FALSE, load_failed |-> FALSE, added |-> FALSE, reload |-> NoReload]

\* The standalone script has not been started.
NoScript ==
    [pc |-> "none", skip_sync |-> FALSE, folders |-> <<>>, disk |-> <<>>,
     cond |-> <<>>, i |-> 0, log |-> <<>>]

\* The parts looked at on their own are at rest.
AuxIdle == rec = NoRecord /\ norm = NoNorm /\ proc = NoProc /\ script = NoScript

Idle == [pc |-> "idle", skip_sync |-> FALSE, force_resync |-> FALSE, i |-> 0,
         success_count |-> 0, total_count |-> 0, log |-> <<>>]

\* --------------------------------------------------------------- sync calls

MediaSet(name, folder) ==
    LET media == GetMediaFiles(name, folder) IN {media[i] : i \in 1..Len(media)}

\* The stages of sync_playlist at which client.search has been called.
Searched == {"no songs", "save", "returned"}

\* The record of a sync_playlist call kept in last. again: the call directly
\* follows a call on the same entry, both with force_resync false, to both of
\* which search answered the same list; landedAll: every song handed to
\* download_songs was written to a file whose stem normalises to the song's
\* key; prevLanded: landedAll of the call before.
SyncRecord(playlist_config, force_resync, before, out, env, prev) ==
    [stage |-> out.stage, name |-> playlist_config.name, force |-> force_resync,
     songs |-> out.songs, error |-> out.error, ret |-> out.ret, url |-> out.url,
     scanned |-> out.scanned, called |-> out.called, todo |-> out.todo,
     results |-> out.results,
     success |-> out.success, saved |-> out.saved, raised |-> env.raised,
     saveFail |-> env.saveFail,
     configured |-> playlist_config.spotify_url, recordsBefore |-> before.spotdl,
     keysBefore |-> GetExistingSongs(playlist_config.name, before),
     mediaBefore |-> MediaSet(playlist_config.name, before),
     mediaAfter |-> MediaSet(playlist_config.name, out.folder),
     record |-> IF RecordName(playlist_config.name) \in DOMAIN out.folder.spotdl
                THEN out.folder.spotdl[RecordName(playlist_config.name)] ELSE NoFile,
     landedAll |-> \A i \in 1..Len(out.todo) :
                      /\ out.todo[i] \in env.landed
                      /\ ExistingKey(DownloadedFile(out.todo[i]))
                           = NormalizeSongName(out.todo[i]),
     again |-> /\ prev.stage \in Searched /\ out.stage \in Searched
               /\ prev.name = playlist_config.name
               /\ ~prev.force /\ ~force_resync
               /\ prev.songs = out.songs,
     prevLanded |-> prev.stage \in Searched /\ prev.landedAll]

\* The conditions a playlist is synced under: answer (what client.search
\* does), landed (the songs the service manages to write to the folder),
\* raised (client.download_songs raises), saveFail (the record write is
\* refused), indexFail (the index write is refused).
World(answer, landed, raised, saveFail, indexFail) ==
    [answer |-> answer, landed |-> landed, raised |-> raised, saveFail |-> saveFail,
     indexFail |-> indexFail]

SongsOf(list) == {list[i] : i \in 1..Len(list)}

Worlds(answers, indexFails) ==
    {World(answer, landed, raised, saveFail, indexFail) :
        answer \in answers, landed \in SUBSET Tracks, raised \in BOOLEAN,
        saveFail \in BOOLEAN, indexFail \in indexFails}

\* The worlds that differ in something a call can observe: only songs the
\* service returns can land, and nothing raises where nothing is downloaded.
ObservableWorlds(answers, indexFails) ==
    {w \in Worlds(answers, indexFails) :
        /\ w.landed \subseteq SongsOf(w.answer.songs)
        /\ w.answer.songs = <<>> => ~w.raised /\ ~w.saveFail}

\* The .spotdl files glob('*.spotdl') can list first.
Firsts(folder) == IF DOMAIN folder.spotdl = {} THEN {None} ELSE DOMAIN folder.spotdl

Env(w, first) ==
    [first |-> first, answer |-> w.answer, landed |-> w.landed, raised |-> w.raised,
     saveFail |-> w.saveFail, indexFail |-> w.indexFail]

\* A call of sync_playlist on a configured entry.
SyncCall(k, force_resync) ==
    LET playlist_config == config[k]
        before == fs[playlist_config.name]
    IN \E first \in Firsts(Mkdir(before)) :
       \E env \in {Env(world[playlist_config.name], first)} :
       \E out \in {SyncPlaylist(playlist_config, before, force_resync, env)} :
          /\ fs' = [fs EXCEPT ![playlist_config.name] = out.folder]
          /\ last' = SyncRecord(playlist_config, force_resync, before, out, env, last)
          /\ UNCHANGED <<config, world, run, aux>>

\* Somebody deletes a media file from a playlist folder between two calls.
ExternalDelete ==
    \E name \in DOMAIN fs : \E p \in fs[name].files :
        /\ fs' = [fs EXCEPT ![name].files = @ \ {p}]
        /\ last' = NoRun
        /\ UNCHANGED <<config, world, run, aux>>

E1 == PlaylistConfig("rock", U1)
E2 == PlaylistConfig("jazz", None)

Names(cfg) == {cfg[k].name : k \in 1..Len(cfg)}

\* Every way of giving each configured playlist one element of choices[name].
PerPlaylist(cfg, choices) ==
    {f \in [Names(cfg) -> UNION {choices[n] : n \in Names(cfg)}] :
        \A n \in Names(cfg) : f[n] \in choices[n]}

SyncWorlds(name) == ObservableWorlds(SearchAnswers, {FALSE})

Init ==
    /\ config \in {<<E1>>, <<E2>>}
    /\ fs \in PerPlaylist(config, [n \in PlaylistNames |-> InitFolders(n)])
    /\ world \in PerPlaylist(config, [n \in PlaylistNames |-> SyncWorlds(n)])
    /\ last = NoRun
    /\ run = Idle
    /\ AuxIdle

Next ==
    \/ \E k \in 1..Len(config), force_resync \in BOOLEAN : SyncCall(k, force_resync)
    \/ ExternalDelete

Spec == Init /\ [][Next]_vars

\* ------------------------------------------------------ sync_all_playlists

\* Most playlists a configuration lists.
MaxEntries == 2

E3 == PlaylistConfig("pop", U2)

\* The configurations sync_all_playlists runs over.
AllConfigs == {SubSeq(<<E1, E2, E3>>, 1, n) : n \in 1..MaxEntries}

\* A folder that was synced and indexed before: its index file still lists a
\* media file that has been deleted since.
UsedFolder(name) ==
    Folder("dir", {"sub/e f.flac", "ab-cd.MP3", "g-h.txt"},
           RecordName(name) :> JsonRecord(U2, None), "#EXTM3U\\ngone.mp3\\n")

AllFolders(name) ==
    {Folder("absent", {}, <<>>, NoFile), Folder("blocked", {}, <<>>, NoFile),
     UsedFolder(name)}

\* The conditions sync_all_playlists meets: the search raises; every download
\* lands; one of two lands; the download raises; the record write is
\* refused; the index write is refused.
AllWorlds(name) ==
    {World(SearchAnswer(TRUE, <<>>), {}, FALSE, FALSE, FALSE),
     World(SearchAnswer(FALSE, <<T1, T2>>), {T1, T2}, FALSE, FALSE, FALSE),
     World(SearchAnswer(FALSE, <<T1, T2>>), {T2}, FALSE, FALSE, FALSE),
     World(SearchAnswer(FALSE, <<T1>>), {}, TRUE, FALSE, FALSE),
     World(SearchAnswer(FALSE, <<T1>>), {T1}, FALSE, TRUE, FALSE),
     World(SearchAnswer(FALSE, <<T1, T2>>), {T1, T2}, FALSE, FALSE, TRUE)}

InitAll ==
    /\ config \in AllConfigs
    /\ fs \in PerPlaylist(config, [n \in PlaylistNames |-> AllFolders(n)])
    /\ world \in PerPlaylist(config, [n \in PlaylistNames |-> AllWorlds(n)])
    /\ last = NoRun
    /\ run = Idle
    /\ AuxIdle

\* sync_all_playlists up to the loop (lines 167-174)
StartRun(skip_sync, force_resync) ==
    /\ run.pc = "idle"
    /\ run' = [pc |-> "loop", skip_sync |-> skip_sync, force_resync |-> force_resync,
               i |-> 1, success_count |-> 0, total_count |-> Len(config), log |-> <<>>]
    /\ UNCHANGED <<config, fs, world, last, aux>>

\* One iteration of the loop (lines 176-190)
LoopStep ==
    /\ run.pc = "loop"
    /\ run.i <= Len(config)
    /\ LET playlist_config == config[run.i]
           before == fs[playlist_config.name]
       IN \E first \in Firsts(Mkdir(before)) :
          \E env \in {Env(world[playlist_config.name], first)} :
          \E done \in {ProcessEntry(playlist_config, before, run.skip_sync,
                                    run.force_resync, env)} :
          \E out \in {SyncPlaylist(playlist_config, before, run.force_resync, env)} :
               /\ fs' = [fs EXCEPT ![playlist_config.name] = done.folder]
               /\ last' = IF run.skip_sync THEN last
                          ELSE SyncRecord(playlist_config, run.force_resync, before,
                                          out, env, last)
               /\ run' = [run EXCEPT
                            !.i = @ + 1,
                            !.success_count = IF done.entry.counted THEN @ + 1 ELSE @,
                            !.log = Append(@, done.entry)]
    /\ UNCHANGED <<config, world, aux>>

\* sync_all_playlists after the loop (lines 192-197): the summary is logged
FinishRun ==
    /\ run.pc = "loop"
    /\ run.i > Len(config)
    /\ run' = [run EXCEPT !.pc = "done"]
    /\ UNCHANGED <<config, fs, world, last, aux>>

NextAll ==
    \/ \E skip_sync, force_resync \in BOOLEAN : StartRun(skip_sync, force_resync)
    \/ LoopStep
    \/ FinishRun

SpecAll == InitAll /\ [][NextAll]_vars

\* =================================================================== claims
\* The properties below speak about last, the record of the most recent
\* sync_playlist call, and about run, the log of sync_all_playlists.

\* The stages at which sync_playlist resolved a URL and search returned songs.
Downloading == {"save", "returned"}

\* ------------------------------------------------------------------------ C1

\* C1, as stated: when sync_playlist runs twice in a row on the same entry
\* with force_resync false, search returning the same list both times and
\* nothing else touching the folder in between, the second run hands no
\* track to download_songs and leaves the set of media files as it was.
C1_SecondRunIdle ==
    last.stage \in Searched /\ last.again
        => ~last.called /\ last.todo = <<>> /\ last.mediaAfter = last.mediaBefore

\* C1, amended: the same two runs, where in addition every track the first
\* run handed to download_songs landed in the folder as a file whose stem
\* normalises to the track's key: then the second run hands no track to
\* download_songs and leaves the set of media files as it was.
C1_SecondRunIdleWhenLanded ==
    last.stage \in Searched /\ last.again /\ last.prevLanded
        => ~last.called /\ last.todo = <<>> /\ last.mediaAfter = last.mediaBefore

\* A second run after a first run that downloaded T1: nothing is downloaded.
C1_Witness ==
    /\ last.stage = "returned" /\ last.again /\ last.prevLanded
    /\ T1 \in SongsOf(last.songs)
    /\ DownloadedFile(T1) \in last.mediaBefore
    /\ ~last.called

\* ------------------------------------------------------------------------ C2

\* The sub-list of songs, in order, whose key is not in keys.
RECURSIVE Delta(_, _)
Delta(songs, keys) ==
    IF songs = <<>> THEN <<>>
    ELSE (IF NormalizeSongName(Head(songs)) \notin keys THEN <<Head(songs)>> ELSE <<>>)
         \o Delta(Tail(songs), keys)

\* C2: with force_resync false, the list sync_playlist hands to
\* download_songs is exactly the sub-list of the tracks search returned, in
\* their order, whose normalised key is not among the keys of the media
\* files the folder held; download_songs is called exactly when that
\* sub-list is not empty.
C2_DeltaIsNewSongs ==
    last.stage \in Downloading /\ ~last.force
        => /\ last.todo = Delta(last.songs, {ExistingKey(p) : p \in last.mediaBefore})
           /\ last.called <=> last.todo # <<>>

\* Remote [T1, T2] against a folder that holds T1's key only: exactly [T2].
C2_Witness ==
    /\ last.stage = "returned" /\ ~last.force
    /\ last.songs = <<T1, T2>>
    /\ last.keysBefore = {NormalizeSongName(T1)}
    /\ last.called /\ last.todo = <<T2>>

\* ------------------------------------------------------------------------ C3

\* C3: with force_resync true, the list sync_playlist hands to
\* download_songs is the whole list search returned, whatever media files
\* the folder holds, and get_existing_songs is not called.
C3_ForceTakesAll ==
    last.stage \in Downloading /\ last.force
        => last.called /\ last.todo = last.songs /\ ~last.scanned

\* A forced run over a folder that already holds a file with T1's key.
C3_Witness ==
    /\ last.stage = "returned" /\ last.force
    /\ NormalizeSongName(T1) \in last.keysBefore
    /\ last.called /\ last.todo = last.songs /\ Head(last.songs) = T1

\* ------------------------------------------------------------------------ C4

\* C4, as stated: when the list to download is not empty, sync_playlist
\* returns True exactly when some element of the download results is true;
\* when it is empty, sync_playlist returns True without calling
\* download_songs.
C4_SuccessIffAnyResult ==
    last.stage \in Downloading
        => IF last.todo # <<>>
           THEN last.called /\ (last.ret <=> AnyTrue(last.results))
           ELSE ~last.called /\ last.ret

\* ------------------------------------------------------------------------ C5

\* C5, as stated: when the write of the reference record fails, sync_playlist
\* still returns what the download step decided: True when some download
\* succeeded or nothing had to be downloaded.
C5_RecordFailureKeepsOutcome ==
    last.stage \in Downloading /\ last.saveFail
        => (last.ret <=> (IF last.called THEN AnyTrue(last.results) ELSE TRUE))

\* ------------------------------------------------------------------------ C6

\* C6: whenever sync_playlist resolved a URL and search returned a non-empty
\* list, save_spotdl_file is called for the folder's own record with that URL
\* once the download step is over, whatever the download results were:
\* unless the disk refuses that write, the record then holds the URL and the
\* files the download step wrote are in the folder.
C6_RecordWrittenAfterDownload ==
    last.stage \in Searched /\ last.songs # <<>>
        => /\ last.stage \in Downloading
           /\ last.url # None
           /\ last.saved <=> ~last.saveFail
           /\ last.saved => last.record = JsonRecord(last.url, None)
           /\ last.called =>
                \A i \in 1..Len(last.todo) :
                    last.results[i] => DownloadedFile(last.todo[i]) \in last.mediaAfter

\* download_songs raised, so every result is false; the URL came from a
\* record file in the folder; the playlist's own record holds it afterwards.
C6_Witness ==
    /\ last.stage = "returned" /\ last.name = "jazz"
    /\ last.called /\ last.raised /\ ~AnyTrue(last.results)
    /\ last.url = U2
    /\ last.record = JsonRecord(U2, None)

\* ------------------------------------------------------------------------ C7

\* The calls one iteration of the loop of sync_all_playlists makes when
\* nothing stops it.
BothSteps(skip_sync) ==
    IF skip_sync THEN <<"create_m3u_playlist">>
    ELSE <<"sync_playlist", "create_m3u_playlist">>

\* C7: in a run of sync_all_playlists, for every entry create_m3u_playlist is
\* called after the entry's sync step: also when sync_playlist returned
\* False, when it stopped for a missing URL or an empty remote list, and when
\* skip_sync turned the sync step off; once the run is over this has happened
\* for every configured entry.
C7_IndexAfterEverySync ==
    /\ run.pc # "idle" =>
          \A i \in 1..Len(run.log) :
              /\ run.log[i].name = config[i].name
              /\ run.log[i].calls = BothSteps(run.skip_sync)
    /\ run.pc = "done" => Len(run.log) = Len(config)

\* A finished run in which the last entry had no URL to sync from:
\* sync_playlist returned False and create_m3u_playlist was called after it.
C7_Witness ==
    /\ run.pc = "done" /\ ~run.skip_sync
    /\ last.stage = "no url" /\ last.name = "jazz"
    /\ \E i \in 1..Len(run.log) :
          /\ run.log[i].name = "jazz"
          /\ ~run.log[i].sync_success
          /\ run.log[i].calls = <<"sync_playlist", "create_m3u_playlist">>

\* ------------------------------------------------------------------------ C8

\* The entries whose folder cannot be created.
Uncreatable == {k \in 1..Len(config) : fs[config[k].name].kind = "blocked"}

\* C8: in a finished run of sync_all_playlists (with the sync step on) over N
\* entries of which exactly one has a folder that cannot be created, and in
\* which nothing else goes wrong for the index of another entry, every other
\* entry is processed in configured order, sync_playlist and
\* create_m3u_playlist both called for it, and the summary counts N - 1
\* successes out of N.
C8_OneFolderFails ==
    /\ run.pc = "done" /\ ~run.skip_sync
    /\ Cardinality(Uncreatable) = 1
    /\ \A k \in 1..Len(config) : k \notin Uncreatable => ~world[config[k].name].indexFail
    => /\ Len(run.log) = Len(config)
       /\ \A k \in 1..Len(config) :
             /\ run.log[k].name = config[k].name
             /\ run.log[k].calls = <<"sync_playlist", "create_m3u_playlist">>
             /\ run.log[k].counted <=> k \notin Uncreatable
       /\ run.success_count = Len(config) - 1
       /\ run.total_count = Len(config)

\* Two entries, the folder of the first cannot be created: the second is
\* processed and counted, the summary is 1 out of 2.
C8_Witness ==
    /\ run.pc = "done" /\ ~run.skip_sync
    /\ Len(config) = 2 /\ Uncreatable = {1}
    /\ ~run.log[1].counted /\ run.log[1].index_raised
    /\ run.log[2].counted
    /\ run.success_count = 1 /\ run.total_count = 2

\* ------------------------------------------------------------ C9 and C10
\* The index file as a reader of text files sees it.

\* The number of newline characters of a text.
NewlineCount(text) == Cardinality({i \in 1..Len(text) : SubSeq(text, i, i) = "\n"})

\* The lines of a text (str.splitlines): the pieces its newline characters
\* end, and what follows the last newline when that is not empty.
RECURSIVE SplitLines(_, _)
SplitLines(cs, cur) ==
    IF cs = <<>> THEN (IF cur = "" THEN <<>> ELSE <<cur>>)
    ELSE IF Head(cs) = "\n" THEN <<cur>> \o SplitLines(Tail(cs), "")
         ELSE SplitLines(Tail(cs), cur \o Head(cs))

Lines(text) == SplitLines(Chars(text), "")

\* The entries of an index file: its lines after the marker line.
IndexEntries(text) == IF Lines(text) = <<>> THEN <<>> ELSE Tail(Lines(text))

\* The entries of the run's log for which create_m3u_playlist completed.
Indexed == {i \in 1..Len(run.log) : ~run.log[i].index_raised}

\* C9, as stated: after create_m3u_playlist completed for a folder, the
\* entries of its index file are exactly the media files the folder tree
\* holds, each once, as paths relative to the folder, in sorted order, and
\* nothing of the file's previous content is left.
C9_IndexListsMediaFiles ==
    \A i \in Indexed :
        LET name == run.log[i].name
        IN IndexEntries(fs[name].m3u) = GetMediaFiles(name, fs[name])

\* C10, as stated: the index file create_m3u_playlist writes for a folder
\* with n media files consists of n + 1 lines, each ended by a newline: the
\* first is #EXTM3U, each of the others is the relative path of one media
\* file.
C10_IndexHasLines ==
    \A i \in Indexed :
        LET name == run.log[i].name
            text == fs[name].m3u
            media == GetMediaFiles(name, fs[name])
        IN /\ NewlineCount(text) = Len(media) + 1
           /\ SubSeq(text, Len(text), Len(text)) = "\n"
           /\ Len(Lines(text)) = Len(media) + 1
           /\ Lines(text)[1] = "#EXTM3U"
           /\ \A j \in 1..Len(media) : Lines(text)[j + 1] = media[j]

\* ============================================== reference records as text
\* load_spotdl_file and save_spotdl_file on the characters of the file.

\* datetime.datetime.now().isoformat() at the time of a save
Now == "2026-01-01T00:00:00"

Quote == "\""
Backslash == "\\"

\* A faulty encoder of JSON strings, for comparison: nothing is escaped.
JsonStringRaw(s) == Quote \o s \o Quote

\* json.dump of one character of a str: the quote, the backslash and the
\* newline are escaped
JsonChar(c) ==
    IF c = Quote THEN Backslash \o Quote
    ELSE IF c = Backslash THEN Backslash \o Backslash
    ELSE IF c = "\n" THEN Backslash \o "n"
    ELSE c

\* json.dump of a str
JsonString(s) == Quote \o Join([i \in 1..Len(s) |-> JsonChar(SubSeq(s, i, i))]) \o Quote

\* json.dump(..., indent=2) of the members of a dict of strs, in order
RECURSIVE JsonMembers(_)
JsonMembers(members) ==
    IF members = <<>> THEN ""
    ELSE "  " \o JsonString(members[1][1]) \o ": " \o JsonString(members[1][2])
         \o (IF Len(members) = 1 THEN "" ELSE ",\n" \o JsonMembers(Tail(members)))

JsonDump(members) ==
    IF members = <<>> THEN "{}" ELSE "{\n" \o JsonMembers(members) \o "\n}"

\* The text save_spotdl_file writes (lines 74-81)
SaveSpotdlText(spotify_url) ==
    JsonDump(<<(<<"query", spotify_url>>), (<<"created_at", Now>>),
               (<<"format", "json">>)>>)

\* json.loads. A result is [ok, value, rest]: whether the text parsed so
\* far, what it gave, the characters left.
Failed == [ok |-> FALSE, value |-> None, rest |-> <<>>]

\* whitespace between JSON tokens
RECURSIVE SkipSpace(_)
SkipSpace(cs) == IF cs # <<>> /\ IsSpace(Head(cs)) THEN SkipSpace(Tail(cs)) ELSE cs

\* A JSON string after its opening quote: up to the closing quote, escapes
\* decoded; a newline inside the string is an error
RECURSIVE ScanString(_, _)
ScanString(cs, acc) ==
    IF cs = <<>> \/ Head(cs) = "\n" THEN Failed
    ELSE IF Head(cs) = Quote THEN [ok |-> TRUE, value |-> acc, rest |-> Tail(cs)]
    ELSE IF Head(cs) = Backslash
         THEN IF Len(cs) < 2 THEN Failed
              ELSE IF cs[2] \in {Quote, Backslash, "/"}
                   THEN ScanString(SubSeq(cs, 3, Len(cs)), acc \o cs[2])
              ELSE IF cs[2] = "n" THEN ScanString(SubSeq(cs, 3, Len(cs)), acc \o "\n")
              ELSE Failed
    ELSE ScanString(Tail(cs), acc \o Head(cs))

\* A JSON string, with its opening quote
ParseString(cs) == IF cs # <<>> /\ Head(cs) = Quote THEN ScanString(Tail(cs), "") ELSE Failed

\* The members of a JSON object after the opening brace or a comma: the dict
\* they give (a later member replaces an earlier one of the same key)
RECURSIVE ParseMembers(_, _)
ParseMembers(cs, dict) ==
    LET key == ParseString(SkipSpace(cs))
        colon == SkipSpace(key.rest)
        val == IF key.ok /\ colon # <<>> /\ Head(colon) = ":"
               THEN ParseString(SkipSpace(Tail(colon))) ELSE Failed
        after == SkipSpace(val.rest)
    IN IF ~val.ok \/ after = <<>> THEN Failed
       ELSE IF Head(after) = ","
            THEN ParseMembers(Tail(after), (key.value :> val.value) @@ dict)
       ELSE IF Head(after) = "}"
            THEN [ok |-> TRUE, value |-> (key.value :> val.value) @@ dict,
                  rest |-> Tail(after)]
       ELSE Failed

\* json.loads of a text that is a dict of strs; anything else the model's
\* files hold is no JSON at all or no dict
JsonLoads(text) ==
    LET cs == SkipSpace(Chars(text))
        obj == IF cs = <<>> \/ Head(cs) # "{" THEN Failed
               ELSE IF SkipSpace(Tail(cs)) # <<>> /\ Head(SkipSpace(Tail(cs))) = "}"
                    THEN [ok |-> TRUE, value |-> <<>>, rest |-> Tail(SkipSpace(Tail(cs)))]
               ELSE ParseMembers(Tail(cs), <<>>)
    IN IF obj.ok /\ SkipSpace(obj.rest) = <<>> THEN obj ELSE Failed

\* dict.get(key)
DictGet(dict, key) == IF key \in DOMAIN dict THEN dict[key] ELSE None

\* FileManager.load_spotdl_file on the text of the file: a text that starts
\* with 'http' once stripped is returned stripped; else the text is parsed
\* as JSON and gives data.get('query') or data.get('url'); a text that is no
\* JSON, or no dict, gives None.
LoadSpotdlText(text) ==
    LET content == StrStrip(text)
        data == JsonLoads(content)
    IN IF StartsWithHttp(content) THEN content
       ELSE IF ~data.ok THEN None
       ELSE IF Truthy(DictGet(data.value, "query")) THEN DictGet(data.value, "query")
       ELSE DictGet(data.value, "url")

\* The sync engine and the orchestrator are at rest.
CoreIdle ==
    /\ config = <<>> /\ fs = <<>> /\ world = <<>>
    /\ last = NoRun /\ run = Idle

\* Longest reference looked at, not counting a leading 'http'.
MaxRefLen == 2

\* The characters references are made of: a letter, the characters JSON
\* escapes, white space, a colon.
RefChars == {"a", Quote, Backslash, " ", "\n", ":"}

\* The non-empty references: with and without a leading 'http'.
References ==
    {prefix \o Join(body) :
        prefix \in {"", "http"},
        body \in UNION {[1..n -> RefChars] : n \in 0..MaxRefLen}} \ {""}

\* White space around the content of a hand-written file.
Padding == {"", " ", "\n"}

Record(url, how, file) ==
    [url |-> url, how |-> how, file |-> file, read |-> FALSE, loaded |-> None]

\* save_spotdl_file(u, file)
SaveRecord(u) ==
    /\ rec = NoRecord
    /\ rec' = Record(u, "saved", SaveSpotdlText(u))
    /\ UNCHANGED butRec

\* Somebody writes a file whose trimmed content is the reference itself.
WriteLiteral(u, left, right) ==
    /\ rec = NoRecord
    /\ StrStrip(u) = u
    /\ rec' = Record(u, "literal", left \o u \o right)
    /\ UNCHANGED butRec

\* Somebody writes a file that is a JSON object with the reference as its
\* 'query' or its 'url' member.
WriteStructured(u, key) ==
    /\ rec = NoRecord
    /\ rec' = Record(u, key, JsonDump(<<(<<key, u>>)>>))
    /\ UNCHANGED butRec

\* load_spotdl_file(file)
LoadRecord ==
    /\ rec.file # NoFile
    /\ ~rec.read
    /\ rec' = [rec EXCEPT !.read = TRUE, !.loaded = LoadSpotdlText(rec.file)]
    /\ UNCHANGED butRec

InitRecord == CoreIdle /\ AuxIdle

NextRecord ==
    \/ \E u \in References : SaveRecord(u)
    \/ \E u \in References, left \in Padding, right \in Padding :
          WriteLiteral(u, left, right)
    \/ \E u \in References, key \in {"query", "url"} : WriteStructured(u, key)
    \/ LoadRecord

SpecRecord == InitRecord /\ [][NextRecord]_vars

\* ======================================================= keys on their own
\* normalize_song_name and the key get_existing_songs gives a file, for the
\* artists and titles of a small alphabet. ("/" cannot be part of a file
\* name and is left out.)

\* Longest artist and longest title looked at.
MaxNameLen == 2

\* An upper-case letter, a space, a hyphen, a dot.
NameChars == {"A", " ", "-", "."}

NameStrings == {Join(cs) : cs \in UNION {[1..n -> NameChars] : n \in 0..MaxNameLen}}

\* The artists and titles looked at.
NamePairs ==
    (NameStrings \X NameStrings) \cup {<<"Pink Floyd", "Wish You Were Here">>}

\* normalize_song_name(song)
NormalizeSong(artist, title) ==
    /\ norm = NoNorm
    /\ norm' = [NoNorm EXCEPT !.artist = artist, !.title = title,
                              !.remote = NormalizeName(Song(artist, artist, title))]
    /\ UNCHANGED butNorm

\* get_existing_songs finds a media file whose stem is '<artist> - <title>'.
ScanTitledFile(suffix) ==
    /\ norm.remote # None /\ norm.file = NoFile
    /\ LET file == norm.artist \o " - " \o norm.title \o suffix
       IN norm' = [norm EXCEPT !.file = file, !.local = NormalizeStem(file)]
    /\ UNCHANGED butNorm

\* get_existing_songs finds a media file whose stem is the song's key.
ScanKeyFile(suffix) ==
    /\ norm.remote # None /\ norm.file = NoFile
    /\ LET file == norm.remote \o suffix
       IN norm' = [norm EXCEPT !.file = file, !.local = NormalizeStem(file)]
    /\ UNCHANGED butNorm

InitNormalize == CoreIdle /\ AuxIdle

NextNormalize ==
    \/ \E pair \in NamePairs : NormalizeSong(pair[1], pair[2])
    \/ \E suffix \in {".mp3", ".FLAC"} : ScanTitledFile(suffix)
    \/ \E suffix \in {".mp3", ".FLAC"} : ScanKeyFile(suffix)

SpecNormalize == InitNormalize /\ [][NextNormalize]_vars

\* ----------------------------------------------------------------------- C11

\* C11: for every non-empty reference u, load_spotdl_file on the file
\* save_spotdl_file(u) wrote returns exactly u; and the three encodings of a
\* reference give the same: a file whose trimmed content is the literal URL
\* u (a text that starts with 'http') is read as u, and so is the JSON
\* object with query = u or with url = u.
C11_RoundTrip ==
    rec.read =>
        /\ rec.how = "saved" => rec.loaded = rec.url
        /\ rec.how \in {"query", "url"} => rec.loaded = rec.url
        /\ rec.how = "literal" /\ StartsWithHttp(rec.url) => rec.loaded = rec.url

\* A reference with a quote and a backslash in it, saved and read back.
C11_Witness ==
    /\ rec.how = "saved" /\ rec.read
    /\ rec.url = "http" \o Quote \o Backslash
    /\ rec.loaded = rec.url

\* ----------------------------------------------------------------------- C12

\* C12, as stated: whatever sync_playlist runs there were on a folder, the
\* folder holds at most one reference record (.spotdl file), also when the
\* URL was read from a record file found in the folder under a name other
\* than the playlist's.
C12_AtMostOneRecord ==
    \A name \in DOMAIN fs : Cardinality(DOMAIN fs[name].spotdl) <= 1

\* ----------------------------------------------------------------------- C13

\* What load_spotdl_file gives for the record files a folder holds.
Readable(records) == {LoadSpotdlFile(records[f]) : f \in DOMAIN records}

\* The playlist's own record in a set of record files.
OwnRecord(name, records) ==
    IF RecordName(name) \in DOMAIN records THEN records[RecordName(name)] ELSE NoFile

\* C13: sync_playlist resolves the URL in a fixed order. A URL configured for
\* the entry is the one used, also when the folder holds a record with
\* another URL. Without a configured URL the URL is the one read from the
\* folder's record file. When neither gives a URL, sync_playlist returns
\* False without calling search or download_songs and without writing a
\* record.
C13_ReferencePriority ==
    last.stage \notin {"none", "mkdir"} =>
        /\ Truthy(last.configured) =>
              last.stage \in Searched /\ last.url = last.configured
        /\ ~Truthy(last.configured) /\ last.stage \in Searched =>
              Truthy(last.url) /\ last.url \in Readable(last.recordsBefore)
        /\ last.stage = "no url" <=>
              ~Truthy(last.configured)
              /\ \A url \in Readable(last.recordsBefore) : ~Truthy(url)
        /\ last.stage = "no url" =>
              /\ ~last.ret /\ ~last.called /\ ~last.saved
              /\ last.songs = <<>> /\ last.todo = <<>>
              /\ last.record = OwnRecord(last.name, last.recordsBefore)
              /\ last.mediaAfter = last.mediaBefore

\* The entry has a URL configured and the folder holds a record with another
\* one: the configured URL is used.
C13_Witness ==
    /\ last.stage = "returned"
    /\ last.configured = U1 /\ last.url = U1
    /\ U2 \in Readable(last.recordsBefore)

\* ----------------------------------------------------------------------- C14

\* C14: for every artist and title, the key normalize_song_name makes of
\* them is the key get_existing_songs gives a media file whose stem is
\* '<artist> - <title>', and the key it gives a media file whose stem is
\* that key already: a key, normalised again, stays as it is.
C14_KeysAgree ==
    norm.file # NoFile =>
        /\ HasMediaSuffix(norm.file)
        /\ PathStem(norm.file) \in {norm.artist \o " - " \o norm.title, norm.remote}
        /\ norm.local = norm.remote

\* The song and the file of the example.
C14_Witness ==
    /\ norm.artist = "Pink Floyd" /\ norm.title = "Wish You Were Here"
    /\ norm.file = "pink-floyd-wish-you-were-here.mp3"
    /\ norm.remote = "pink-floyd-wish-you-were-here"
    /\ norm.local = norm.remote

\* ===================================================== configuration file
\* ConfigManager.load_config on the text of the INI-style file.

\* str.startswith(prefix)
StartsWith(s, prefix) == Len(s) >= Len(prefix) /\ SubSeq(s, 1, Len(prefix)) = prefix

\* The position of the first c in s; 0 when there is none (str.find, from 1)
FirstIndex(s, c) ==
    LET at == {i \in 1..Len(s) : SubSeq(s, i, i) = c}
    IN IF at = {} THEN 0 ELSE CHOOSE i \in at : \A j \in at : i <= j

\* section_regex.match(line): the line starts with [, one or more of
\* a-zA-Z0-9_, and ]; group(1), or None when the line does not match
SectionOf(line) ==
    LET close == FirstIndex(line, "]")
    IN IF /\ Len(line) >= 3 /\ SubSeq(line, 1, 1) = "[" /\ close >= 3
          /\ \A i \in 2..(close - 1) : IsWordChar(SubSeq(line, i, i))
       THEN SubSeq(line, 2, close - 1)
       ELSE None

ConfigError == [error |-> TRUE, data |-> <<>>, playlists |-> <<>>]

\* ConfigManager._parse_config_file, the loop over the lines: current is
\* current_section, data is config_data
RECURSIVE ParseConfigLines(_, _, _)
ParseConfigLines(lines, current, data) ==
    IF lines = <<>> THEN [error |-> FALSE, data |-> data, playlists |-> <<>>]
    ELSE LET line == StrStrip(Head(lines))
             section == SectionOf(line)
         IN IF line = "" \/ StartsWith(line, "#")
            THEN ParseConfigLines(Tail(lines), current, data)
            ELSE IF section # None
            THEN ParseConfigLines(Tail(lines), section,
                                  IF section \in DOMAIN data THEN data
                                  ELSE (section :> <<>>) @@ data)
            ELSE IF current = None THEN ConfigError
            ELSE ParseConfigLines(Tail(lines), current,
                                  [data EXCEPT ![current] = Append(@, line)])

\* ConfigManager._parse_config_file
ParseConfigFile(text) == ParseConfigLines(Lines(text), None, <<>>)

\* ConfigManager._parse_playlist_line: [name, url]
ParsePlaylistLine(line) ==
    LET space == FirstIndex(line, " ")
        name == IF space = 0 THEN line ELSE SubSeq(line, 1, space - 1)
        url == IF space = 0 THEN None ELSE StrStrip(SubSeq(line, space + 1, Len(line)))
    IN IF Truthy(url) /\ ~(StartsWith(url, "http://") \/ StartsWith(url, "https://"))
       THEN [name |-> StrStrip(line), url |-> None]
       ELSE [name |-> StrStrip(name), url |-> url]

\* ConfigManager._build_app_config: the playlists of the AppConfig, or the
\* ValueError. dirs are the paths that are directories.
BuildAppConfig(data, dirs) ==
    IF "base" \notin DOMAIN data \/ data["base"] = <<>> THEN ConfigError
    ELSE IF "playlists" \notin DOMAIN data THEN ConfigError
    ELSE IF data["base"][1] \notin dirs THEN ConfigError
    ELSE [error |-> FALSE, data |-> data,
          playlists |-> [i \in 1..Len(data["playlists"]) |->
                           PlaylistConfig(ParsePlaylistLine(data["playlists"][i]).name,
                                          ParsePlaylistLine(data["playlists"][i]).url)]]

\* ConfigManager.load_config of a file that exists
LoadConfig(text, dirs) ==
    With(ParseConfigFile(text), LAMBDA parsed :
         IF parsed.error THEN ConfigError ELSE BuildAppConfig(parsed.data, dirs))

\* ------------------------------------------------------------------- main
\* main(): the manager is initialised from the configuration file, then
\* either one playlist is added or every configured playlist is synced.

\* The paths that are directories, for base_path.is_dir()
Dirs == {"/m"}

\* ConfigManager.create_default_config: the text it writes
DefaultConfig ==
    "# Playlist Manager Configuration\n\n"
    \o "# Base directory where playlists are stored\n[base]\n~/Music/playlists\n\n"
    \o "# List of playlist folders to manage\n"
    \o "# Format: playlist_name [optional_spotify_url]\n[playlists]\n"
    \o "# Add your playlist folder names here\n# Examples:\n# my-favorite-songs\n"
    \o "# rock-classics https://open.spotify.com/playlist/4uV...\n"
    \o "# jazz-collection https://open.spotify.com/playlist/37i...\n\n"
    \o "# Spotify API credentials (optional but recommended)\n"
    \o "# Get them from: https://developer.spotify.com/dashboard/applications\n"
    \o "[spotify]\n# client_id=your_client_id_here\n"
    \o "# client_secret=your_client_secret_here\n# audio_format=mp3\n"
    \o "# audio_quality=best\n"

\* Configuration files main() can find: two that load, with the playlists
\* section last or followed by the credentials; one whose last line has no
\* line end; then the ones load_config refuses (content outside a section,
\* no base, an empty base, no playlists section, a base that is no
\* directory); and no file at all.
ConfigFiles ==
    {"[base]\n/m\n\n# lists\n[playlists]\nrock http://s/1\njazz\n",
     "[base]\n/m\n[playlists]\nrock http://s/1\n[spotify]\nclient_id=x\n",
     "[base]\n/m\n[playlists]\njazz",
     "rock\n[base]\n/m\n[playlists]\n",
     "[playlists]\nrock\n",
     "[base]\n[playlists]\nrock\n",
     "[base]\n/m\n",
     "[base]\n/nodir\n[playlists]\nrock\n",
     NoFile}

\* What args.add_playlist can be.
AddRequests == {NoAdd, [url |-> U2, name |-> "pop"]}

\* main() is started on a configuration file.
Process(file, add) == [NoProc EXCEPT !.pc = "start", !.file = file, !.add = add]

\* What the process will touch: the folder of the playlist to add, or the
\* folders of the configured playlists.
Touched(file, add) ==
    IF add # NoAdd THEN <<PlaylistConfig(add.name, add.url)>>
    ELSE IF file = NoFile THEN <<>>
    ELSE LoadConfig(file, Dirs).playlists

InitMain ==
    /\ \E file \in ConfigFiles, add \in AddRequests :
          /\ proc = Process(file, add)
          /\ fs \in PerPlaylist(Touched(file, add), [n \in PlaylistNames |-> AllFolders(n)])
          /\ world \in PerPlaylist(Touched(file, add), [n \in PlaylistNames |-> AllWorlds(n)])
    /\ config = <<>>
    /\ last = NoRun
    /\ run = Idle
    /\ rec = NoRecord
    /\ norm = NoNorm
    /\ script = NoScript

\* A faulty main: the handler reports the error and ends normally.
MainExitQuiet(raised) == 0

\* main, lines 44-49 and the end of the function: the exit status when an
\* exception reached the handlers, and when none did
MainExit(raised) == IF raised THEN 1 ELSE 0

\* main up to manager.initialize() (lines 22-30), and the exits that follow
\* when no configuration was loaded (lines 32-40)
MainInitialize ==
    /\ proc.pc = "start"
    /\ IF proc.file = NoFile
       THEN /\ proc' = [proc EXCEPT !.file = DefaultConfig, !.pc = "exited",
                                    !.exit_code = MainExit(proc.add # NoAdd)]
            /\ UNCHANGED config
       ELSE \E loaded \in {LoadConfig(proc.file, Dirs)} :
               IF loaded.error
               THEN /\ proc' = [proc EXCEPT !.pc = "exited", !.load_failed = TRUE,
                                            !.exit_code = MainExit(TRUE)]
                    /\ UNCHANGED config
               ELSE /\ proc' = [proc EXCEPT !.pc = "initialized", !.loaded = TRUE]
                    /\ config' = loaded.playlists
    /\ UNCHANGED <<fs, world, last, run, rec, norm, script>>

\* main, line 43: manager.sync_all_playlists(args.skip_sync, args.force_resync)
MainSyncAll(skip_sync, force_resync) ==
    /\ proc.pc = "initialized"
    /\ proc.add = NoAdd
    /\ StartRun(skip_sync, force_resync)

\* main after sync_all_playlists has returned
MainReturn ==
    /\ proc.pc = "initialized"
    /\ run.pc = "done"
    /\ proc' = [proc EXCEPT !.pc = "exited", !.exit_code = MainExit(FALSE)]
    /\ UNCHANGED butProc

\* PlaylistManager.add_playlist and main, lines 33-36
MainAddPlaylist ==
    /\ proc.pc = "initialized"
    /\ proc.add # NoAdd
    /\ LET playlist_config == PlaylistConfig(proc.add.name, proc.add.url)
           before == fs[proc.add.name]
       IN \E first \in Firsts(Mkdir(before)) :
          \E env \in {Env(world[proc.add.name], first)} :
          \E out \in {SyncPlaylist(playlist_config, before, FALSE, env)} :
          \E success \in {~out.escaped /\ out.ret} :
             /\ fs' = [fs EXCEPT ![proc.add.name] = out.folder]
             /\ last' = SyncRecord(playlist_config, FALSE, before, out, env, last)
             /\ proc' = [proc EXCEPT
                           !.file = IF success
                                    THEN @ \o proc.add.name \o " " \o proc.add.url \o "\n"
                                    ELSE @,
                           !.added = success,
                           !.pc = "exited",
                           !.exit_code = IF success THEN 0 ELSE 1]
    /\ UNCHANGED <<config, world, run, rec, norm, script>>

\* The next start of the program after a playlist was added: load_config
\* on the file as add_playlist left it
Reload ==
    /\ proc.pc = "exited"
    /\ proc.added
    /\ ~proc.reload.done
    /\ \E loaded \in {LoadConfig(proc.file, Dirs)} :
          proc' = [proc EXCEPT !.reload = [done |-> TRUE, error |-> loaded.error,
                                           playlists |-> loaded.playlists]]
    /\ UNCHANGED butProc

NextMain ==
    \/ MainInitialize
    \/ \E skip_sync, force_resync \in BOOLEAN : MainSyncAll(skip_sync, force_resync)
    \/ LoopStep
    \/ FinishRun
    \/ MainReturn
    \/ MainAddPlaylist
    \/ Reload

SpecMain == InitMain /\ [][NextMain]_vars

\* C15. When loading the configuration fails, main exits with a non-zero
\* status and no playlist has been synced or indexed: the loop never
\* started, no sync_playlist call was made. When the configuration has
\* loaded and all playlists were synced, main exits with status 0, whatever
\* went wrong for the single playlists.
C15_ExitStatus ==
    /\ proc.load_failed =>
          /\ proc.pc = "exited" /\ proc.exit_code # 0
          /\ run = Idle /\ last = NoRun /\ ~proc.added
    /\ (proc.loaded /\ proc.add = NoAdd /\ proc.pc = "exited") =>
          /\ proc.exit_code = 0
          /\ run.pc = "done"

\* main has ended after a run over a loaded configuration in which a
\* playlist was not synced and its index not written.
C15_Witness ==
    /\ proc.loaded /\ proc.pc = "exited" /\ proc.add = NoAdd
    /\ proc.exit_code = 0
    /\ \E k \in 1..Len(run.log) :
          ~run.log[k].sync_success /\ run.log[k].index_raised

\* ------------------------------------------------- the standalone script
\* update() of src/update_playlist.py: for each configured folder the sync
\* command of the downloader is run, then the index is written.

\* str.endswith(suffix)
EndsWith(s, suffix) ==
    Len(s) >= Len(suffix) /\ SubSeq(s, Len(s) - Len(suffix) + 1, Len(s)) = suffix

\* media_extensions of create_m3u_from_folder (the last one has no dot)
media_extensions == {".mp3", ".mp4", ".mkv", ".avi", ".flac", ".wav", ".aac", ".ogg", "opus"}

\* os.path.basename
Basename(path) ==
    LET slashes == {i \in 1..Len(path) : SubSeq(path, i, i) = "/"}
    IN IF slashes = {} THEN path
       ELSE SubSeq(path, (CHOOSE i \in slashes : \A j \in slashes : j <= i) + 1, Len(path))

RECURSIVE ScriptBody(_)
ScriptBody(paths) ==
    IF paths = <<>> THEN "" ELSE Basename(Head(paths)) \o "\n" \o ScriptBody(Tail(paths))

\* create_m3u_from_folder: the text it writes, one base name per line. The
\* files come in the order os.walk lists them, taken here as the sorted one.
CreateM3uFromFolder(folder) ==
    ScriptBody(SortedPaths({p \in folder.files :
                              \E ext \in media_extensions : EndsWith(StrLower(p), ext)}))

\* update(), one folder (lines 42-64). cond is what the folder's step
\* meets: the exit status of the sync command, the files it has left in the
\* folder by then, whether opening the index file for writing is refused.
\* The result: the folder afterwards, what was done, whether an exception
\* left update().
UpdateFolder(name, folder, skip_sync, cond) ==
    IF folder.kind # "dir"
    THEN [folder |-> folder, raised |-> FALSE,
          entry |-> [name |-> name, exists |-> FALSE, command |-> "none",
                     indexed |-> FALSE]]
    ELSE LET runs == ~skip_sync /\ DOMAIN folder.spotdl # {}
             synced == IF runs THEN [folder EXCEPT !.files = @ \cup cond.landed]
                       ELSE folder
         IN IF runs /\ cond.status # 0
            THEN [folder |-> synced, raised |-> FALSE,
                  entry |-> [name |-> name, exists |-> TRUE, command |-> "failed",
                             indexed |-> FALSE]]
            ELSE IF cond.refused
            THEN [folder |-> synced, raised |-> TRUE,
                  entry |-> [name |-> name, exists |-> TRUE,
                             command |-> IF runs THEN "ran" ELSE "none",
                             indexed |-> FALSE]]
            ELSE [folder |-> [synced EXCEPT !.m3u = CreateM3uFromFolder(synced)],
                  raised |-> FALSE,
                  entry |-> [name |-> name, exists |-> TRUE,
                             command |-> IF runs THEN "ran" ELSE "none",
                             indexed |-> TRUE]]

\* The folders the script finds: none; one that was synced and indexed
\* before; one with media files and no reference record.
ScriptFolders(name) ==
    {Folder("absent", {}, <<>>, NoFile), UsedFolder(name),
     Folder("dir", {"sub/e f.flac"}, <<>>, NoFile)}

\* What a folder's step meets: the command succeeds and a file lands; it
\* fails with nothing downloaded; it fails after a file has landed; it
\* succeeds and the index file cannot be opened for writing.
ScriptConds ==
    {[status |-> 0, landed |-> {DownloadedFile(T1)}, refused |-> FALSE],
     [status |-> 1, landed |-> {}, refused |-> FALSE],
     [status |-> 1, landed |-> {DownloadedFile(T1)}, refused |-> FALSE],
     [status |-> 0, landed |-> {}, refused |-> TRUE]}

\* config["playlists"] of the script
ScriptPlaylists == <<"rock", "jazz">>

InitScript ==
    /\ \E disk \in [{"rock", "jazz"} -> ScriptFolders("rock") \cup ScriptFolders("jazz")],
          cond \in [{"rock", "jazz"} -> ScriptConds] :
          /\ \A n \in {"rock", "jazz"} : disk[n] \in ScriptFolders(n)
          /\ script = [NoScript EXCEPT !.pc = "start", !.folders = ScriptPlaylists,
                                       !.disk = disk, !.cond = cond]
    /\ CoreIdle
    /\ rec = NoRecord
    /\ norm = NoNorm
    /\ proc = NoProc

\* update() up to the loop (lines 38-40)
UpdateStart(skip_sync) ==
    /\ script.pc = "start"
    /\ script' = [script EXCEPT !.pc = "loop", !.skip_sync = skip_sync, !.i = 1]
    /\ UNCHANGED butScript

\* One iteration of the loop of update() (lines 41-64)
UpdateStep ==
    /\ script.pc = "loop"
    /\ script.i <= Len(script.folders)
    /\ LET name == script.folders[script.i] IN
       \E done \in {UpdateFolder(name, script.disk[name], script.skip_sync,
                                 script.cond[name])} :
          script' = [script EXCEPT
                       !.disk[name] = done.folder,
                       !.log = Append(@, done.entry),
                       !.i = @ + 1,
                       !.pc = IF done.raised THEN "raised" ELSE @]
    /\ UNCHANGED butScript

\* update() after the loop (lines 66-67)
UpdateFinish ==
    /\ script.pc = "loop"
    /\ script.i > Len(script.folders)
    /\ script' = [script EXCEPT !.pc = "done"]
    /\ UNCHANGED butScript

NextScript ==
    \/ \E skip_sync \in BOOLEAN : UpdateStart(skip_sync)
    \/ UpdateStep
    \/ UpdateFinish

SpecScript == InitScript /\ [][NextScript]_vars

\* C16. In update() of the standalone script, the index of every folder
\* that exists is written after the sync step, also when the sync command
\* failed for it, and every configured folder is processed whatever
\* happened to the folders before it.
C16_IndexAfterFailedSync ==
    /\ \A k \in 1..Len(script.log) :
          script.log[k].command = "failed" => script.log[k].indexed
    /\ script.pc \in {"done", "raised"} => Len(script.log) = Len(script.folders)

\* C17. After add_playlist(url, name) has returned success, loading the
\* configuration file again succeeds and gives an entry with that name and
\* that reference, and every playlist configured before is still an entry.
C17_AddedPlaylistReloads ==
    proc.reload.done =>
       /\ ~proc.reload.error
       /\ \E k \in 1..Len(proc.reload.playlists) :
             proc.reload.playlists[k] = PlaylistConfig(proc.add.name, proc.add.url)
       /\ \A j \in 1..Len(config) :
             \E k \in 1..Len(proc.reload.playlists) : proc.reload.playlists[k] = config[j]

\* C18. The success counter of sync_all_playlists is the number of entries
\* processed so far whose index generation was called and did not raise,
\* whatever their sync returned, and it lies between 0 and the total count,
\* which is the number of configured entries.
C18_SuccessCount ==
    run.pc # "idle" =>
       /\ run.success_count =
             Cardinality({k \in 1..Len(run.log) :
                            /\ run.log[k].calls # <<>>
                            /\ run.log[k].calls[Len(run.log[k].calls)] = "create_m3u_playlist"
                            /\ ~run.log[k].index_raised})
       /\ 0 <= run.success_count
       /\ run.success_count <= run.total_count
       /\ run.total_count = Len(config)

\* A finished run over two entries: one was not synced and is counted, the
\* index of the other was not written and it is not counted.
C18_Witness ==
    /\ run.pc = "done"
    /\ ~run.skip_sync
    /\ Len(run.log) = 2
    /\ run.success_count = 1
    /\ \E k \in 1..2 : ~run.log[k].sync_success /\ ~run.log[k].index_raised
    /\ \E k \in 1..2 : run.log[k].index_raised

====
